---- MODULE Spec2Model ----
(***************************************************************************)
(* Model of packages/shared_logging/shared_logging/logging.py: the         *)
(* DialogflowContextFilter, the CustomJsonFormatter and the get_logger     *)
(* factory, together with the part of Python's logging machinery they      *)
(* drive (the logger registry, levels, filters, handlers, propagation).    *)
(*                                                                         *)
(* Python values are tagged records [t, v].  A string is a sequence of     *)
(* atoms: the atom "/" is the slash character, a one-letter atom is that   *)
(* character, and any longer atom is a fixed slash-free run of characters  *)
(* ("projects", "agents", ...).  A dict is a function from its keys.       *)
(***************************************************************************)
EXTENDS Integers, Sequences, FiniteSets, TLC

VARIABLES environ, root, segments, loggerDict, call, first, threads

vars == <<environ, root, segments, loggerDict, call, first, threads>>

-----------------------------------------------------------------------------
(* Python values *)

PyNone == [t |-> "None", v |-> <<>>]

Str(s) == [t |-> "str", v |-> s]

PyInt(n) == [t |-> "int", v |-> n]

PyFloat(x) == [t |-> "float", v |-> x]

Dict(f) == [t |-> "dict", v |-> f]

\* A dict literal, from its set of <<key, value>> pairs.
MkDict(pairs) ==
  Dict([k \in {p[1] : p \in pairs} |-> (CHOOSE p \in pairs : p[1] = k)[2]])

EmptyDict == MkDict({})

\* An exception in flight, as the value of the expression that raised it.
Raise(e) == [t |-> "raise", v |-> e]

IsRaise(x) == x.t = "raise"

\* bool(x), as `if webhook_request:` and `or` apply it.
Truthy(x) ==
  CASE x.t = "None" -> FALSE
    [] x.t = "str" -> Len(x.v) > 0
    [] x.t = "int" -> x.v # 0
    [] x.t = "dict" -> DOMAIN x.v # {}
    [] OTHER -> TRUE

\* d.get(key, default): only a mapping has .get.
DictGet(d, key, default) ==
  IF IsRaise(d) THEN d
  ELSE IF d.t # "dict" THEN Raise("AttributeError")
  ELSE IF key \in DOMAIN d.v THEN d.v[key] ELSE default

\* a or b: b is evaluated only when a is falsy.
PyOr(a, b) == IF IsRaise(a) THEN a ELSE IF Truthy(a) THEN a ELSE b

\* d[key] = value
DictSet(f, key, value) ==
  [k \in DOMAIN f \cup {key} |-> IF k = key THEN value ELSE f[k]]

\* d.pop(key, default): the value and the dict without the key.
DictPop(f, key, default) ==
  [value |-> IF key \in DOMAIN f THEN f[key] ELSE default,
   rest |-> [k \in DOMAIN f \ {key} |-> f[k]]]

\* d.update(other)
DictUpdate(f, g) ==
  [k \in DOMAIN f \cup DOMAIN g |-> IF k \in DOMAIN g THEN g[k] ELSE f[k]]

-----------------------------------------------------------------------------
(* Strings *)

RECURSIVE SplitFrom(_, _, _)
\* The parts of s[i..] given the part `cur` read so far.
SplitFrom(s, i, cur) ==
  IF i > Len(s) THEN <<cur>>
  ELSE IF s[i] = "/" THEN <<cur>> \o SplitFrom(s, i + 1, <<>>)
  ELSE SplitFrom(s, i + 1, Append(cur, s[i]))

\* session_path.split("/"): a list of strings; only a string has .split.
Split(x) ==
  IF IsRaise(x) THEN x
  ELSE IF x.t # "str" THEN Raise("AttributeError")
  ELSE [t |-> "list", v |-> SplitFrom(x.v, 1, <<>>)]

RECURSIVE Join(_)
\* "/".join(parts)
Join(parts) ==
  IF Len(parts) = 0 THEN <<>>
  ELSE IF Len(parts) = 1 THEN parts[1]
  ELSE parts[1] \o <<"/">> \o Join(Tail(parts))

LowerCase ==
  <<"a", "b", "c", "d", "e", "f", "g", "h", "i", "j", "k", "l", "m",
    "n", "o", "p", "q", "r", "s", "t", "u", "v", "w", "x", "y", "z">>

UpperCase ==
  <<"A", "B", "C", "D", "E", "F", "G", "H", "I", "J", "K", "L", "M",
    "N", "O", "P", "Q", "R", "S", "T", "U", "V", "W", "X", "Y", "Z">>

UpperChar(c) ==
  IF \E i \in DOMAIN LowerCase : LowerCase[i] = c
  THEN UpperCase[CHOOSE i \in DOMAIN LowerCase : LowerCase[i] = c]
  ELSE c

\* str.upper()
Upper(s) == [i \in DOMAIN s |-> UpperChar(s[i])]

-----------------------------------------------------------------------------
(* get_logger, lines 82-101: the context extracted from a webhook request *)

\* webhook_request.get("sessionInfo", {}).get("session", "")
SessionPath(req) ==
  DictGet(DictGet(req, "sessionInfo", EmptyDict), "session", Str(<<>>))

\* The identifiers read from the session path; all None below six parts.
SessionIds(parts) ==
  IF Len(parts) >= 6
  THEN [project_id |-> Str(parts[2]), agent_id |-> Str(parts[4]),
        session_id |-> Str(parts[Len(parts)])]
  ELSE [project_id |-> PyNone, agent_id |-> PyNone, session_id |-> PyNone]

\* The two sources in the other order: the displayName first.
DisplayNameOrParam(req, param, info) ==
  PyOr(DictGet(DictGet(req, info, EmptyDict), "displayName", PyNone),
       DictGet(DictGet(DictGet(req, "sessionInfo", EmptyDict),
                       "parameters", EmptyDict), param, PyNone))

\* sessionInfo.parameters[param] or <info>.displayName
ParamOrDisplayName(req, param, info) ==
  PyOr(DictGet(DictGet(DictGet(req, "sessionInfo", EmptyDict),
                       "parameters", EmptyDict), param, PyNone),
       DictGet(DictGet(req, info, EmptyDict), "displayName", PyNone))

FlowId(req) == ParamOrDisplayName(req, "flow-id", "flowInfo")

PageId(req) == ParamOrDisplayName(req, "page-id", "pageInfo")

IntentId(req) ==
  DictGet(DictGet(req, "intentInfo", EmptyDict), "displayName", PyNone)

NoContext ==
  [session_id |-> PyNone, project_id |-> PyNone, agent_id |-> PyNone,
   flow_id |-> PyNone, page_id |-> PyNone, intent_id |-> PyNone]

\* The six locals after lines 82-101, and the exception that ended them.
\* A statement that raises leaves its target, and all later ones, at None.
ExtractContext(req) ==
  IF ~Truthy(req) THEN [error |-> "", context |-> NoContext]
  ELSE
    LET parts == Split(SessionPath(req))
        flow == FlowId(req)
        page == PageId(req)
        intent == IntentId(req)
        ids == SessionIds(parts.v)
        c1 == [NoContext EXCEPT !.project_id = ids.project_id,
                                !.agent_id = ids.agent_id,
                                !.session_id = ids.session_id]
        c2 == [c1 EXCEPT !.flow_id = flow]
        c3 == [c2 EXCEPT !.page_id = page]
        c4 == [c3 EXCEPT !.intent_id = intent]
    IN  IF IsRaise(parts) THEN [error |-> parts.v, context |-> NoContext]
        ELSE IF IsRaise(flow) THEN [error |-> flow.v, context |-> c1]
        ELSE IF IsRaise(page) THEN [error |-> page.v, context |-> c2]
        ELSE IF IsRaise(intent) THEN [error |-> intent.v, context |-> c3]
        ELSE [error |-> "", context |-> c4]

-----------------------------------------------------------------------------
(* Python's logging levels *)

N_DEBUG == <<"D", "E", "B", "U", "G">>

N_INFO == <<"I", "N", "F", "O">>

N_WARNING == <<"W", "A", "R", "N", "I", "N", "G">>

N_ERROR == <<"E", "R", "R", "O", "R">>

N_CRITICAL == <<"C", "R", "I", "T", "I", "C", "A", "L">>

N_NOTSET == <<"N", "O", "T", "S", "E", "T">>

N_WARN == <<"W", "A", "R", "N">>

N_FATAL == <<"F", "A", "T", "A", "L">>

N_BASIC_FORMAT == <<"B", "A", "S", "I", "C", "_", "F", "O", "R", "M", "A", "T">>

N_STYLES == <<"_", "S", "T", "Y", "L", "E", "S">>

\* The levels log calls are made at: debug(), info(), warning(), error(),
\* critical().
LogLevels == {10, 20, 30, 40, 50}

\* logging.getLevelName(levelno), for the levels above.
LevelName(levelno) ==
  CASE levelno = 10 -> N_DEBUG
    [] levelno = 20 -> N_INFO
    [] levelno = 30 -> N_WARNING
    [] levelno = 40 -> N_ERROR
    [] levelno = 50 -> N_CRITICAL
    [] OTHER -> N_NOTSET

\* getattr(logging, name, logging.INFO): the module's attributes an upper-cased
\* name can hit are the level numbers, BASIC_FORMAT (a format string) and
\* _STYLES (a dict).
LoggingAttr(name) ==
  CASE name = N_DEBUG -> PyInt(10)
    [] name = N_INFO -> PyInt(20)
    [] name = N_WARNING -> PyInt(30)
    [] name = N_WARN -> PyInt(30)
    [] name = N_ERROR -> PyInt(40)
    [] name = N_CRITICAL -> PyInt(50)
    [] name = N_FATAL -> PyInt(50)
    [] name = N_NOTSET -> PyInt(0)
    [] name = N_BASIC_FORMAT -> Str(<<"%(levelname)s:%(name)s:%(message)s">>)
    [] name = N_STYLES -> MkDict({<<"%", Str(<<"PercentStyle">>)>>})
    [] OTHER -> PyInt(20)

\* Lines 70-71: the level get_logger resolves from the environment.
ResolveLevel(env) ==
  LoggingAttr(Upper(DictGet(env, "LOG_LEVEL", Str(N_INFO)).v))

\* Logger.setLevel's check of its argument: an int passes, a string must be a
\* level name, anything else is a TypeError.
CheckLevel(level) ==
  IF level.t = "int" THEN level
  ELSE IF level.t = "str"
    THEN IF level.v \in {N_DEBUG, N_INFO, N_WARNING, N_WARN, N_ERROR,
                         N_CRITICAL, N_FATAL, N_NOTSET}
         THEN LoggingAttr(level.v) ELSE Raise("ValueError")
  ELSE Raise("TypeError")

-----------------------------------------------------------------------------
(* The logger registry and the channels in it *)

\* The logger names in use; both are children of the root logger.
Names == {"svc", "job"}

\* A name logging.getLogger has not been asked for yet.
NoLogger ==
  [id |-> 0, level |-> 0, propagate |-> TRUE, handlers |-> <<>>,
   filters |-> <<>>]

\* logging.getLogger(name): the registry's logger of that name, created (level
\* NOTSET, propagating, no handlers, no filters) on the first request.
GetLoggerObject(dict, name) ==
  IF dict[name].id # 0 THEN dict
  ELSE [dict EXCEPT ![name] =
          [NoLogger EXCEPT !.id = 1 + Cardinality({n \in Names : dict[n].id # 0})]]

\* Logger.hasHandlers(): this logger's handlers, then its ancestors' as long as
\* the loggers on the way propagate.
HasHandlers(lg, rt) ==
  \/ Len(lg.handlers) > 0
  \/ lg.propagate /\ Len(rt.handlers) > 0

\* Logger.getEffectiveLevel(): the first level that is not NOTSET on the way
\* up to the root.
EffectiveLevel(lg, rt) == IF lg.level # 0 THEN lg.level ELSE rt.level

\* Lines 120-121: the handler get_logger builds.
StdoutHandler == [stream |-> "stdout", formatter |-> "CustomJsonFormatter"]

\* A handler is added only to a logger that has none.
AddHandlerOnce(lg) == IF Len(lg.handlers) > 0 THEN lg ELSE [lg EXCEPT !.handlers = Append(@, StdoutHandler)]

\* Line 123: logger.addHandler(handler)
AddHandler(lg) == [lg EXCEPT !.handlers = Append(@, StdoutHandler)]

\* Lines 104-111 and 124: logger.addFilter(DialogflowContextFilter(...))
AddFilter(lg, context) == [lg EXCEPT !.filters = Append(@, context)]

\* Line 75 left out: the level is set and the logger still propagates.
SetLevelOnly(lg, level) == [lg EXCEPT !.level = level]

\* Lines 74-75: logger.setLevel(log_level); logger.propagate = False
SetLevelAndPropagate(lg, level) == [lg EXCEPT !.level = level, !.propagate = FALSE]

\* The guard left out.
NeverConfigured(lg, rt) == FALSE

\* Line 78: the guard that ends a call on an already configured channel.
AlreadyConfigured(lg, rt) == HasHandlers(lg, rt)

\* get_logger(name, webhook_request) run from line 70 to its return or its
\* exception: the registry afterwards, the exception ("" when none) and the
\* logger returned (0 when none).
GetLoggerResult(dict, env, rt, name, req) ==
  LET d0 == GetLoggerObject(dict, name)
      level == CheckLevel(ResolveLevel(env))
      lg1 == SetLevelAndPropagate(d0[name], level.v)
      ext == ExtractContext(req)
      lg2 == AddFilter(AddHandler(lg1), ext.context)
  IN  IF IsRaise(level)
        THEN [dict |-> d0, error |-> level.v, ret |-> 0]
      ELSE IF AlreadyConfigured(lg1, rt)
        THEN [dict |-> [d0 EXCEPT ![name] = lg1], error |-> "", ret |-> lg1.id]
      ELSE IF ext.error # ""
        THEN [dict |-> [d0 EXCEPT ![name] = lg1], error |-> ext.error, ret |-> 0]
      ELSE [dict |-> [d0 EXCEPT ![name] = lg2], error |-> "", ret |-> lg2.id]

-----------------------------------------------------------------------------
(* A log call: filters, handlers, the JSON formatter *)

\* Logger.makeRecord: the LogRecord of a log call.
MakeRecord(name, levelno, extra) ==
  [name |-> Str(<<name>>), levelno |-> levelno,
   levelname |-> Str(LevelName(levelno)), message |-> Str(<<"msg">>),
   asctime |-> Str(<<"asctime">>), created |-> PyFloat("created"),
   extra |-> extra, attrs |-> EmptyDict.v]

RECURSIVE ApplyFilters(_, _)
\* Logger.filter(record) over DialogflowContextFilter.filter, lines 33-36:
\* each filter sets record.dialogflow_context and lets the record pass.
ApplyFilters(filters, record) ==
  IF Len(filters) = 0 THEN record
  ELSE ApplyFilters(Tail(filters),
         [record EXCEPT !.attrs =
            DictSet(@, "dialogflow_context", Dict(Head(filters)))])

\* jsonlogger.JsonFormatter.add_fields under the format string and the
\* rename_fields of lines 114-117: the fields of the format string, then the
\* record's extra attributes, then the renames levelname -> severity and
\* asctime -> timestamp.
JsonFormatterAddFields(record) ==
  LET required == [asctime |-> record.asctime, name |-> record.name,
                   levelname |-> record.levelname, message |-> record.message]
      merged == DictUpdate(DictUpdate(required, record.extra), record.attrs)
      sev == DictPop(merged, "levelname", PyNone)
      ts == DictPop(DictSet(sev.rest, "severity", sev.value), "asctime", PyNone)
  IN  DictSet(ts.rest, "timestamp", ts.value)

\* Line 50: log_record["severity"] = log_record.pop("levelname", "INFO").upper()
SeverityField(log_record) ==
  LET p == DictPop(log_record, "levelname", Str(N_INFO))
  IN  DictSet(p.rest, "severity", Str(Upper(p.value.v)))

\* CustomJsonFormatter.add_fields, lines 45-55.
AddFields(record) ==
  LET r0 == JsonFormatterAddFields(record)
      p1 == DictPop(r0, "asctime", record.created)
      r1 == DictSet(p1.rest, "timestamp", p1.value)
      r2 == SeverityField(r1)
      p3 == DictPop(r2, "name", record.name)
      r3 == DictSet(p3.rest, "name", p3.value)
  IN  IF "dialogflow_context" \in DOMAIN record.attrs
      THEN DictUpdate(r3, record.attrs["dialogflow_context"].v)
      ELSE r3

\* Logger.callHandlers on this logger: one formatted line per handler.
EmitLines(lg, record) == [i \in DOMAIN lg.handlers |-> AddFields(record)]

\* Logger.callHandlers above this logger: the root's handlers see the record
\* only when the logger propagates.
RootCopies(lg, rt) == IF lg.propagate THEN Len(rt.handlers) ELSE 0

-----------------------------------------------------------------------------
(* Inputs *)

\* Longest identifier segment of a generated session path, in characters.
MaxSegLen == 1

\* The two threads that may run get_logger at the same time.
Threads == {"t1", "t2"}

\* A key that a dict literal leaves out.
Absent == [t |-> "absent", v |-> <<>>]

Field(key, value) == IF value = Absent THEN {} ELSE {<<key, value>>}

\* A webhook request with the given top-level entries.
Request(sessionInfo, flowInfo, pageInfo, intentInfo) ==
  MkDict(Field("sessionInfo", sessionInfo) \cup Field("flowInfo", flowInfo)
         \cup Field("pageInfo", pageInfo) \cup Field("intentInfo", intentInfo))

SessionInfo(session, parameters) ==
  MkDict(Field("session", session) \cup Field("parameters", parameters))

Parameters(flow, page) == MkDict(Field("flow-id", flow) \cup Field("page-id", page))

Info(displayName) == MkDict(Field("displayName", displayName))

\* The mock request of the example, lines 132-139.
ExampleSession ==
  Join(<< <<"projects">>, <<"telecom-project-123">>, <<"locations">>, <<"global">>,
          <<"agents">>, <<"agent-abc-456">>, <<"sessions">>, <<"session-xyz-789">> >>)

ExampleRequest ==
  MkDict({<<"sessionInfo",
            SessionInfo(Str(ExampleSession),
                        Parameters(Str(<<"tech_support">>), Str(<<"internet_issues">>)))>>,
          <<"intentInfo", Info(Str(<<"report.internet.slow">>))>>,
          <<"text", Str(<<"my internet is super slow today">>)>>})

\* A request whose sessionInfo is null.
NullSessionRequest == Request(PyNone, Absent, Absent, Info(Str(<<"intent">>)))

\* The requests of the calls of the sequential and the threaded specification.
Requests == {PyNone, ExampleRequest, NullSessionRequest}

\* Identifier segments: the slash-free strings of up to MaxSegLen characters.
Segments == UNION {[1..n -> {"a", "b"}] : n \in 0..MaxSegLen}

PathNoEnvironment(P, L, A, S) ==
  Join(<< <<"projects">>, P, <<"locations">>, L, <<"agents">>, A, <<"sessions">>, S >>)

PathWithEnvironment(P, L, A, E, S) ==
  Join(<< <<"projects">>, P, <<"locations">>, L, <<"agents">>, A,
          <<"environments">>, E, <<"sessions">>, S >>)

\* Session paths of fewer than six parts.
ShortPaths ==
  {Join(SubSeq(<< <<"projects">>, <<"a">>, <<"locations">>, <<"b">>, <<"agents">> >>, 1, n))
     : n \in 0..5}

\* A request that holds a session path and nothing else.
SessionRequest(path) == Request(SessionInfo(Str(path), Absent), Absent, Absent, Absent)

ShortPathRequests == {SessionRequest(path) : path \in ShortPaths}

ParameterValues == {Absent, PyNone, Str(<<>>), PyInt(0), Str(<<"param">>)}

DisplayNames == {Absent, Str(<<>>), Str(<<"display">>)}

\* Requests that differ in the flow and page sources.
FlowPageRequests ==
  {Request(SessionInfo(Absent, Parameters(flow, page)), flowInfo, pageInfo, Absent) :
     flow \in ParameterValues, page \in {Absent, Str(<<>>), Str(<<"page">>)},
     flowInfo \in {Absent} \cup {Info(d) : d \in DisplayNames},
     pageInfo \in {Absent, Info(Str(<<"pdisplay">>))}}

\* Requests whose substructures are missing, null or of another type.
ShapeRequests ==
  {Request(sessionInfo, flowInfo, pageInfo, intentInfo) :
     sessionInfo \in {Absent, PyNone}
        \cup {SessionInfo(session, parameters) :
                session \in {Absent, PyNone, PyInt(7), Str(ExampleSession)},
                parameters \in {Absent, PyNone, Parameters(Absent, Absent)}},
     flowInfo \in {Absent, PyNone, Info(Str(<<"display">>))},
     pageInfo \in {Absent, PyNone, Info(Str(<<"pdisplay">>))},
     intentInfo \in {Absent, PyNone, Info(Str(<<"intent">>))}}

\* The requests the extraction is applied to.
AllRequests ==
  {PyNone, ExampleRequest} \cup ShortPathRequests \cup FlowPageRequests \cup ShapeRequests

\* The values LOG_LEVEL takes; the empty environment leaves it unset.
LogLevelValues ==
  {<<"W", "a", "r", "n", "i", "n", "g">>, <<"n", "o", "t", "s", "e", "t">>, <<"v", "e", "r", "b", "o", "s", "e">>,
   <<"b", "a", "s", "i", "c", "_", "f", "o", "r", "m", "a", "t">>}

Environments ==
  {EmptyDict} \cup {MkDict({<<"LOG_LEVEL", Str(v)>>}) : v \in LogLevelValues}

\* The extra= arguments of log calls: none, and the example's customer_id
\* together with a key that is also a context key.
Extras ==
  {EmptyDict.v,
   MkDict({<<"customer_id", Str(<<"CUST-55443">>)>>, <<"session_id", Str(<<"spoof">>)>>}).v}

\* The root logger as Python creates it: level WARNING, no handler.
DefaultRoot == [level |-> 30, handlers |-> <<>>]

-----------------------------------------------------------------------------
(* State *)

\* The last step taken: the operation, its arguments, its outcome, and the
\* logger of that name as it was before the step.
NoCall ==
  [op |-> "none", name |-> "", request |-> PyNone, error |-> "", ret |-> 0,
   before |-> NoLogger, levelno |-> 0, extra |-> EmptyDict.v, out |-> <<>>,
   rootOut |-> 0]

\* segments: the identifier segments the session path of the input request was
\* built from, <<P, L, A, S>> or <<P, L, A, E, S>>; empty for any other request.
\* first[name]: the request of the first get_logger call for that name, kept
\* by the tracked calls of SpecFirst.
NoFirst == [n \in Names |-> Absent]

IdleThread == [pc |-> "idle", name |-> "", request |-> PyNone, context |-> NoContext, ret |-> 0]

Init ==
  /\ environ = EmptyDict
  /\ root = DefaultRoot
  /\ segments = <<>>
  /\ loggerDict = [n \in Names |-> NoLogger]
  /\ call = NoCall
  /\ first = NoFirst
  /\ threads = [t \in Threads |-> IdleThread]

\* The host sets or clears LOG_LEVEL, read at line 70.
SetEnv(env) ==
  /\ environ # env
  /\ environ' = env
  /\ call' = [NoCall EXCEPT !.op = "setenv"]
  /\ UNCHANGED <<root, segments, loggerDict, first, threads>>

\* The host (or its runtime) gives the root logger a handler of its own, the
\* handler line 75 keeps the channel's records away from.
HostConfiguresRoot ==
  /\ root.handlers = <<>>
  /\ root' = [root EXCEPT !.handlers = <<"stderr">>]
  /\ call' = [NoCall EXCEPT !.op = "basicConfig"]
  /\ UNCHANGED <<environ, segments, loggerDict, first, threads>>

\* get_logger(name, webhook_request), lines 58-126, run to its end.
GetLoggerCall(name, req) ==
  LET r == GetLoggerResult(loggerDict, environ, root, name, req)
  IN  /\ loggerDict' = r.dict
      /\ call' = [NoCall EXCEPT !.op = "get_logger", !.name = name, !.request = req,
                                !.error = r.error, !.ret = r.ret,
                                !.before = loggerDict[name]]
      /\ UNCHANGED <<environ, root, segments, threads>>

GetLogger(name, req) == GetLoggerCall(name, req) /\ UNCHANGED first

\* The same call, with the request of a name's first call remembered.
GetLoggerTracked(name, req) ==
  /\ GetLoggerCall(name, req)
  /\ first' = IF first[name] = Absent THEN [first EXCEPT ![name] = req] ELSE first

\* logger.log(levelno, msg, extra=extra) on a logger of the registry:
\* isEnabledFor, makeRecord, the filters, then the handlers.
Log(name, levelno, extra) ==
  LET lg == loggerDict[name]
      record == ApplyFilters(lg.filters, MakeRecord(name, levelno, extra))
      enabled == levelno >= EffectiveLevel(lg, root)
  IN  /\ lg.id # 0
      /\ call' = [NoCall EXCEPT !.op = "log", !.name = name, !.levelno = levelno,
                                !.extra = extra, !.before = lg,
                                !.out = IF enabled THEN EmitLines(lg, record) ELSE <<>>,
                                !.rootOut = IF enabled THEN RootCopies(lg, root) ELSE 0]
      /\ UNCHANGED <<environ, root, segments, loggerDict, first, threads>>

Next ==
  \/ \E env \in Environments : SetEnv(env)
  \/ HostConfiguresRoot
  \/ \E name \in Names, req \in Requests : GetLogger(name, req)
  \/ \E name \in Names, levelno \in LogLevels : Log(name, levelno, EmptyDict.v)

\* Sequential calls of get_logger and log calls, in any order.
Spec == Init /\ [][Next]_vars

-----------------------------------------------------------------------------
(* One get_logger call on a fresh registry, for every request *)

\* The input of the call: any request of AllRequests, or a request whose
\* session path is built from the identifier segments kept in `segments`.
InputIs(req, segs) ==
  /\ call = [NoCall EXCEPT !.op = "input", !.request = req]
  /\ segments = segs

InitExtract ==
  /\ environ = EmptyDict
  /\ root = DefaultRoot
  /\ loggerDict = [n \in Names |-> NoLogger]
  /\ \/ \E req \in AllRequests : InputIs(req, <<>>)
     \/ \E P \in Segments, L \in Segments, A \in Segments, S \in Segments :
          InputIs(SessionRequest(PathNoEnvironment(P, L, A, S)), <<P, L, A, S>>)
     \/ \E P \in Segments, L \in Segments, A \in Segments, E \in Segments, S \in Segments :
          InputIs(SessionRequest(PathWithEnvironment(P, L, A, E, S)), <<P, L, A, E, S>>)
  /\ first = NoFirst
  /\ threads = [t \in Threads |-> IdleThread]

GetLoggerOnInput == call.op = "input" /\ GetLogger("svc", call.request)

NextExtract == GetLoggerOnInput

SpecExtract == InitExtract /\ [][NextExtract]_vars

-----------------------------------------------------------------------------
(* Sequential calls under one environment, with each name's first request *)

NextFirst ==
  \/ \E name \in Names, req \in Requests : GetLoggerTracked(name, req)
  \/ \E name \in Names, levelno \in LogLevels, extra \in Extras : Log(name, levelno, extra)

SpecFirst == Init /\ [][NextFirst]_vars

-----------------------------------------------------------------------------
(* Two threads in get_logger, one statement group at a time *)

\* A thread enters get_logger(name, webhook_request).
ThreadCall(t, name, req) ==
  /\ threads[t].pc = "idle"
  /\ threads' = [threads EXCEPT ![t] = [IdleThread EXCEPT !.pc = "configure",
                                                         !.name = name, !.request = req]]
  /\ call' = [NoCall EXCEPT !.op = "thread"]
  /\ UNCHANGED <<environ, root, segments, loggerDict, first>>

\* Lines 70-75: resolve the level, get the logger, set level and propagate.
ThreadConfigure(t) ==
  LET name == threads[t].name
      d0 == GetLoggerObject(loggerDict, name)
      level == CheckLevel(ResolveLevel(environ))
  IN  /\ threads[t].pc = "configure"
      /\ IF IsRaise(level)
         THEN /\ loggerDict' = d0
              /\ threads' = [threads EXCEPT ![t].pc = "raised"]
         ELSE /\ loggerDict' = [d0 EXCEPT ![name] = SetLevelAndPropagate(d0[name], level.v)]
              /\ threads' = [threads EXCEPT ![t].pc = "guard"]
      /\ call' = [NoCall EXCEPT !.op = "thread"]
      /\ UNCHANGED <<environ, root, segments, first>>

\* Lines 78-79: return the logger when it has a handler already.
ThreadGuard(t) ==
  LET lg == loggerDict[threads[t].name]
  IN  /\ threads[t].pc = "guard"
      /\ threads' = IF AlreadyConfigured(lg, root)
                    THEN [threads EXCEPT ![t].pc = "returned", ![t].ret = lg.id]
                    ELSE [threads EXCEPT ![t].pc = "extract"]
      /\ call' = [NoCall EXCEPT !.op = "thread"]
      /\ UNCHANGED <<environ, root, segments, loggerDict, first>>

\* Lines 82-121: extract the context, build filter, formatter and handler.
ThreadExtract(t) ==
  LET ext == ExtractContext(threads[t].request)
  IN  /\ threads[t].pc = "extract"
      /\ threads' = IF ext.error # ""
                    THEN [threads EXCEPT ![t].pc = "raised"]
                    ELSE [threads EXCEPT ![t].pc = "addHandler", ![t].context = ext.context]
      /\ call' = [NoCall EXCEPT !.op = "thread"]
      /\ UNCHANGED <<environ, root, segments, loggerDict, first>>

\* Line 123: logger.addHandler(handler)
ThreadAddHandler(t) ==
  /\ threads[t].pc = "addHandler"
  /\ loggerDict' = [loggerDict EXCEPT ![threads[t].name] = AddHandler(@)]
  /\ threads' = [threads EXCEPT ![t].pc = "addFilter"]
  /\ call' = [NoCall EXCEPT !.op = "thread"]
  /\ UNCHANGED <<environ, root, segments, first>>

\* Lines 124-126: logger.addFilter(context_filter); return logger
ThreadAddFilter(t) ==
  /\ threads[t].pc = "addFilter"
  /\ loggerDict' = [loggerDict EXCEPT ![threads[t].name] = AddFilter(@, threads[t].context)]
  /\ threads' = [threads EXCEPT ![t].pc = "done",
                                ![t].ret = loggerDict[threads[t].name].id]
  /\ call' = [NoCall EXCEPT !.op = "thread"]
  /\ UNCHANGED <<environ, root, segments, first>>

\* The levels and the extra of the log calls of the threaded specification.
ThreadedLogLevels == {20, 40}

NextThreads ==
  \/ \E env \in Environments : SetEnv(env)
  \/ \E t \in Threads, name \in Names, req \in Requests : ThreadCall(t, name, req)
  \/ \E t \in Threads : ThreadConfigure(t)
  \/ \E t \in Threads : ThreadGuard(t)
  \/ \E t \in Threads : ThreadExtract(t)
  \/ \E t \in Threads : ThreadAddHandler(t)
  \/ \E t \in Threads : ThreadAddFilter(t)
  \/ \E name \in Names, levelno \in ThreadedLogLevels : Log(name, levelno, EmptyDict.v)

SpecThreads == Init /\ [][NextThreads]_vars

-----------------------------------------------------------------------------
(* Properties *)

ContextKeys == {"session_id", "project_id", "agent_id", "flow_id", "page_id", "intent_id"}

\* The call just made is a get_logger call that returned a logger.
Returned == call.op = "get_logger" /\ call.error = ""

\* The context held by the filter of the logger get_logger just built.
BuiltContext == loggerDict[call.name].filters[1]

\* The call just made is a get_logger call that built the channel.
Built == Returned /\ Len(call.before.handlers) = 0

\* req[k1][k2]..., Absent when a key on the way is missing or its holder is no dict.
RECURSIVE Lookup(_, _)
Lookup(x, path) ==
  IF Len(path) = 0 THEN x
  ELSE IF x.t = "dict" /\ Head(path) \in DOMAIN x.v THEN Lookup(x.v[Head(path)], Tail(path))
  ELSE Absent

\* None for a missing value.
OrNone(x) == IF x = Absent THEN PyNone ELSE x

\* C1: under sequential get_logger calls every channel has at most one output
\* handler and at most one context filter, a call on an existing name returns
\* that name's logger object, and a record logged at or above the threshold
\* through a channel get_logger has returned is written as exactly one line.
C1_ConfiguredOnce ==
  /\ \A n \in Names : Len(loggerDict[n].handlers) <= 1 /\ Len(loggerDict[n].filters) <= 1
  /\ Returned => /\ call.ret = loggerDict[call.name].id
                 /\ call.before.id # 0 => call.ret = call.before.id
  /\ (/\ call.op = "log"
      /\ Len(call.before.handlers) > 0
      /\ call.levelno >= EffectiveLevel(call.before, root)) => Len(call.out) = 1

\* A repeated call on a configured name has returned the same logger.
C1_Witness ==
  /\ Returned
  /\ Len(call.before.handlers) = 1
  /\ call.ret = call.before.id
  /\ Len(loggerDict[call.name].handlers) = 1

\* C2: for a session path projects/P/locations/L/agents/A/sessions/S or
\* projects/P/locations/L/agents/A/environments/E/sessions/S the context built
\* has project_id = P, agent_id = A and session_id = S.
C2_SessionIds ==
  (Built /\ Len(segments) > 0) =>
     /\ BuiltContext.project_id = Str(segments[1])
     /\ BuiltContext.agent_id = Str(segments[3])
     /\ BuiltContext.session_id = Str(segments[Len(segments)])

\* C3: get_logger raises for no webhook_request: the call returns a
\* configured channel whatever the shape of the request.
C3_NeverRaises ==
  call.op = "get_logger" =>
     /\ call.error = ""
     /\ Len(loggerDict[call.name].handlers) = 1

\* C4: a call on a name that already has an output handler leaves the logger
\* as it was: handlers, filters, propagation and level.
C4_Unchanged ==
  (Returned /\ Len(call.before.handlers) > 0) => loggerDict[call.name] = call.before

\* C5: every line written carries the six context keys with the values
\* extracted from the request of the first get_logger call for that name.
C5_FirstContext ==
  call.op = "log" =>
     \A i \in DOMAIN call.out : \A k \in ContextKeys :
        /\ k \in DOMAIN call.out[i]
        /\ call.out[i][k] = ExtractContext(first[call.name]).context[k]

\* The level LOG_LEVEL names, case-insensitively; INFO for any other value.
ExpectedLevel(env) ==
  LET name == Upper(OrNone(Lookup(env, <<"LOG_LEVEL">>)).v)
  IN  CASE name = N_DEBUG -> 10
        [] name = N_INFO -> 20
        [] name \in {N_WARNING, N_WARN} -> 30
        [] name = N_ERROR -> 40
        [] name \in {N_CRITICAL, N_FATAL} -> 50
        [] name = N_NOTSET -> 0
        [] OTHER -> 20

\* C6: get_logger sets the level LOG_LEVEL names, INFO for any other value,
\* and raises for no value of LOG_LEVEL.
C6_LevelFromEnvironment ==
  call.op = "get_logger" =>
     /\ call.error \notin {"ValueError", "TypeError"}
     /\ loggerDict[call.name].level = ExpectedLevel(environ)

\* C7: through a channel built by get_logger, a log call below the channel's
\* threshold writes nothing, one at or above it writes exactly one line, and
\* no handler above the channel sees the record.
C7_Threshold ==
  (call.op = "log" /\ Len(call.before.handlers) > 0) =>
     /\ call.levelno < EffectiveLevel(call.before, root) => Len(call.out) = 0
     /\ call.levelno >= EffectiveLevel(call.before, root) => Len(call.out) = 1
     /\ call.rootOut = 0

\* With the threshold at WARNING an ERROR record has been written once.
C7_Witness ==
  /\ call.op = "log"
  /\ Len(call.before.handlers) > 0
  /\ call.before.level = 30
  /\ call.levelno = 40
  /\ Len(call.out) = 1
  /\ call.rootOut = 0
  /\ Len(root.handlers) > 0

\* The flow or page id the claim C8 names: the parameter when its key is
\* present, else the displayName, else None.
ParameterWins(req, param, info) ==
  LET p == Lookup(req, <<"sessionInfo", "parameters", param>>)
  IN  IF p # Absent THEN p ELSE OrNone(Lookup(req, <<info, "displayName">>))

\* C8 as stated: a present flow-id (page-id) parameter is the flow_id
\* (page_id) whatever the displayName.
C8_ParameterPresent ==
  Built =>
     /\ BuiltContext.flow_id = ParameterWins(call.request, "flow-id", "flowInfo")
     /\ BuiltContext.page_id = ParameterWins(call.request, "page-id", "pageInfo")

\* The parameter when it is present and truthy (not None, "" or 0), else the
\* displayName, else None.
TruthyParameterWins(req, param, info) ==
  LET p == Lookup(req, <<"sessionInfo", "parameters", param>>)
  IN  IF p # Absent /\ Truthy(p) THEN p ELSE OrNone(Lookup(req, <<info, "displayName">>))

\* C8, amended: a flow-id (page-id) parameter that is present and truthy is
\* the flow_id (page_id) whatever the displayName; otherwise the field is the
\* displayName, and None when that is missing too.
C8_TruthyParameter ==
  Built =>
     /\ BuiltContext.flow_id = TruthyParameterWins(call.request, "flow-id", "flowInfo")
     /\ BuiltContext.page_id = TruthyParameterWins(call.request, "page-id", "pageInfo")

\* A parameter has won over a displayName that is present.
C8_Witness ==
  /\ Built
  /\ Lookup(call.request, <<"sessionInfo", "parameters", "flow-id">>) = Str(<<"param">>)
  /\ Lookup(call.request, <<"flowInfo", "displayName">>) = Str(<<"display">>)
  /\ BuiltContext.flow_id = Str(<<"param">>)

\* C9: every line written has a severity key holding the upper-case name of
\* the level of the log call.
C9_Severity ==
  call.op = "log" =>
     \A i \in DOMAIN call.out :
        /\ "severity" \in DOMAIN call.out[i]
        /\ call.out[i]["severity"] = Str(LevelName(call.levelno))

\* Both threads have attached their handler and filter to the same channel.
BothAttached ==
  /\ \A t \in Threads : threads[t].pc = "done"
  /\ \A t, u \in Threads : threads[t].name = threads[u].name

\* C10: when both threads pass the guard of the same unconfigured name before
\* either attaches, the channel ends with two output handlers and two context
\* filters, and a record logged through it is written once per handler.
C10_Race ==
  /\ BothAttached => \A t \in Threads :
        /\ Len(loggerDict[threads[t].name].handlers) = 2
        /\ Len(loggerDict[threads[t].name].filters) = 2
  /\ (call.op = "log" /\ call.levelno >= EffectiveLevel(call.before, root)) =>
        Len(call.out) = Len(call.before.handlers)

\* After the race a record has been written twice.
C10_Witness ==
  /\ BothAttached
  /\ call.op = "log"
  /\ \A t \in Threads : call.name = threads[t].name
  /\ Len(call.before.handlers) = 2
  /\ Len(call.out) = 2

====
